---- MODULE Spec2Model ----
(***************************************************************************)
(* Distance Vector Routing simulation (routing_protocol.py).               *)
(*                                                                         *)
(* Node    : name, neighbors {neighbor: link cost}, routing_table          *)
(*           {destination: (cost, next_hop)}.                              *)
(* Network : nodes {name: Node}; add_link builds the topology and          *)
(*           distance_vector_routing runs synchronous rounds (export all   *)
(*           tables, every node relaxes against every neighbour's          *)
(*           snapshot) until a round changes nothing.                      *)
(*                                                                         *)
(* Python dicts keep insertion order and the loops of the program iterate  *)
(* in that order, so the key order of Network.nodes and of Node.neighbors  *)
(* is part of the state (nodeOrder, nbrOrder).  The key order of a routing *)
(* table is not: update_routing_table reads and writes, for each           *)
(* destination, only the entry of that destination.                        *)
(***************************************************************************)
EXTENDS Integers, Sequences, FiniteSets, TLC

\* ------------------------------------------------------------------ bounds

\* Largest link cost a caller passes to add_link.
MaxCost == 3
\* Number of add_link calls a caller makes before running the protocol.
MaxLinks == 3
\* Number of times distance_vector_routing is called on one network.
MaxRuns == 2
\* Cap on the round counter `iteration` (the code has none); a run on
\* non-negative costs stops before reaching it (C3).
MaxIter == 3

\* The node names, in the order in which a caller first uses them.
NameSeq == <<"A", "B", "C", "D">>
AllNames == {NameSeq[x] : x \in DOMAIN NameSeq}

\* The costs a caller passes to add_link: positive ones; zero and small
\* positive ones; a negative, a zero and a positive one.
PosCosts == 1..MaxCost
NonNegCosts == 0..2
AnyCosts == (-1)..1

\* float('inf'): larger than every finite cost, absorbing under addition.
Inf == 999999
\* Python's None as a next hop.
None == "None"

\* The add_link calls of main(), in order.
MainLinks ==
    << <<"A", "B", 1>>, <<"A", "C", 4>>, <<"B", "C", 2>>,
       <<"B", "D", 5>>, <<"C", "D", 1>> >>

\* ------------------------------------------------------------------- state

VARIABLES
    nodeOrder,      \* Network.nodes: the node names, in insertion order
    neighbors,      \* Node.neighbors of every node: neighbor -> link cost
    nbrOrder,       \* key order of Node.neighbors of every node
    routing_table,  \* Node.routing_table of every node: dest -> <<cost, hop>>
    sent_tables,    \* local sent_tables of distance_vector_routing
    updated,        \* local updated of distance_vector_routing
    iteration,      \* local iteration of distance_vector_routing
    pc,             \* where the caller / distance_vector_routing stands
    i,              \* position in the loop over self.nodes.values()
    j,              \* position in the loop over node.neighbors
    runs,           \* calls of distance_vector_routing so far
    links,          \* calls of add_link so far
    pending,        \* add_link calls main() has still to make
    direct_call     \* a direct update_routing_table call and its outcome

vars == <<nodeOrder, neighbors, nbrOrder, routing_table, sent_tables, updated,
          iteration, pc, i, j, runs, links, pending, direct_call>>

\* --------------------------------------------------------- dict operations

EmptyDict == <<>>

\* d[k] = v
Put(d, k, v) == [x \in (DOMAIN d) \cup {k} |-> IF x = k THEN v ELSE d[x]]

\* d.get(k, default)
Get(d, k, default) == IF k \in DOMAIN d THEN d[k] ELSE default

\* Key order of a dict after d[k] = v: a new key goes last, an old one stays.
PutOrder(order, d, k) == IF k \in DOMAIN d THEN order ELSE Append(order, k)

Range(s) == {s[x] : x \in DOMAIN s}

\* ------------------------------------------------------- float arithmetic

\* a + b with float('inf') absorbing.
Plus(a, b) == IF a = Inf \/ b = Inf THEN Inf ELSE a + b

\* a < b with float('inf') above every finite number and not below itself.
Less(a, b) == IF a = Inf THEN FALSE ELSE IF b = Inf THEN TRUE ELSE a < b

\* ------------------------------------------------------------------- Node

\* Node.__init__: no neighbors, an empty routing table.
NewNode == [neighbors |-> EmptyDict, nbrOrder |-> <<>>, routing_table |-> EmptyDict]

\* Node.add_neighbor(neighbor, cost) on the node `node` (a record of its
\* three fields): records the link and overwrites the entry of the neighbor.
add_neighbor(node, neighbor, cost) ==
    [neighbors |-> Put(node.neighbors, neighbor, cost),
     nbrOrder |-> PutOrder(node.nbrOrder, node.neighbors, neighbor),
     routing_table |-> Put(node.routing_table, neighbor, <<cost, neighbor>>)]

\* Variant of initialize_routing_table without the test
\* `node not in self.routing_table` of line 27.
initialize_routing_table_reset(table, self, all_nodes) ==
    LET filled == [d \in (DOMAIN table) \cup (all_nodes \ {self}) |->
                      IF d \in all_nodes \ {self} THEN <<Inf, None>>
                      ELSE table[d]]
    IN  Put(filled, self, <<0, self>>)

\* Node.initialize_routing_table(all_nodes) of the node named self: the
\* routing table after the call.
initialize_routing_table(table, self, all_nodes) ==
    LET filled == [d \in (DOMAIN table) \cup (all_nodes \ {self}) |->
                      IF d \in DOMAIN table THEN table[d] ELSE <<Inf, None>>]
    IN  Put(filled, self, <<0, self>>)

\* Variant of send_routing_table that returns self.routing_table itself.
send_routing_table_alias(table) == [alias |-> TRUE, table |-> table]

\* Node.send_routing_table: copy.deepcopy of the table, a new object with
\* the contents the table has at the call.  An object handed out is a
\* record: alias tells whether it is the node's own dict, table holds the
\* contents of a copy.
send_routing_table(table) == [alias |-> FALSE, table |-> table]

\* Variant of SkipDestination without the `continue` of line 47.
SkipNothing(destination, self) == FALSE

\* line 46: the destination update_routing_table skips.
SkipDestination(destination, self) == destination = self

\* Variant of NewCost that forgets the cost of the link to the neighbor.
NewCostNoLink(cost_to_neighbor, neighbor_cost) == neighbor_cost

\* line 49: new_cost = cost_to_neighbor + neighbor_cost
NewCost(cost_to_neighbor, neighbor_cost) == Plus(cost_to_neighbor, neighbor_cost)

\* Variant of Improves with <= for <.
ImprovesOrEqual(new_cost, current_cost) ==
    new_cost = current_cost \/ Less(new_cost, current_cost)

\* Variant of Improves with > for <.
ImprovesReversed(new_cost, current_cost) == Less(current_cost, new_cost)

\* line 51: if new_cost < current_cost
Improves(new_cost, current_cost) == Less(new_cost, current_cost)

\* Variant of NewEntry that records the neighbor's own next hop.
NewEntryNeighborHop(new_cost, neighbor, neighbor_next_hop) ==
    <<new_cost, neighbor_next_hop>>

\* line 52: the entry written for an improved destination.
NewEntry(new_cost, neighbor, neighbor_next_hop) == <<new_cost, neighbor>>

\* The destinations whose entry one update_routing_table call rewrites.
Improved(table, self, cost_to_neighbor, neighbor_table) ==
    {d \in DOMAIN neighbor_table :
        /\ ~SkipDestination(d, self)
        /\ Improves(NewCost(cost_to_neighbor, neighbor_table[d][1]),
                    Get(table, d, <<Inf, None>>)[1])}

\* Variant of update_routing_table that returns True whatever it did.
update_routing_table_true(table, self, neighbor, cost_to_neighbor, neighbor_table) ==
    LET better == Improved(table, self, cost_to_neighbor, neighbor_table)
    IN  [table |-> [d \in (DOMAIN table) \cup better |->
                       IF d \in better
                       THEN NewEntry(NewCost(cost_to_neighbor, neighbor_table[d][1]),
                                     neighbor, neighbor_table[d][2])
                       ELSE table[d]],
         updated |-> TRUE]

\* Node.update_routing_table(neighbor, neighbor_table) of the node named
\* self with link cost cost_to_neighbor = self.neighbors[neighbor]:
\* the routing table after the call and the value returned.
update_routing_table(table, self, neighbor, cost_to_neighbor, neighbor_table) ==
    LET better == Improved(table, self, cost_to_neighbor, neighbor_table)
    IN  [table |-> [d \in (DOMAIN table) \cup better |->
                       IF d \in better
                       THEN NewEntry(NewCost(cost_to_neighbor, neighbor_table[d][1]),
                                     neighbor, neighbor_table[d][2])
                       ELSE table[d]],
         updated |-> better # {}]

\* Variant of try_update_routing_table with self.neighbors.get(neighbor, 0)
\* for the lookup of line 43.
try_update_routing_table_default(node, self, neighbor, neighbor_table) ==
    LET r == update_routing_table(node.routing_table, self, neighbor,
                                  Get(node.neighbors, neighbor, 0),
                                  neighbor_table)
    IN  [table |-> r.table, outcome |-> IF r.updated THEN "True" ELSE "False"]

\* Node.update_routing_table(neighbor, neighbor_table) as its caller sees
\* it: self.neighbors[neighbor] (line 43) raises KeyError for a neighbor
\* that is not a key, before any entry is read or written; otherwise the
\* call returns True or False.
try_update_routing_table(node, self, neighbor, neighbor_table) ==
    IF neighbor \notin DOMAIN node.neighbors
    THEN [table |-> node.routing_table, outcome |-> "KeyError"]
    ELSE LET r == update_routing_table(node.routing_table, self, neighbor,
                                       node.neighbors[neighbor],
                                       neighbor_table)
         IN  [table |-> r.table,
              outcome |-> IF r.updated THEN "True" ELSE "False"]

\* ---------------------------------------------------------------- Network

\* Network.add_node: the key order of self.nodes after the call.
add_node(order, node_name) ==
    IF node_name \in Range(order) THEN order ELSE Append(order, node_name)

\* The fields of the Node named n.
NodeOf(n) ==
    [neighbors |-> neighbors[n], nbrOrder |-> nbrOrder[n],
     routing_table |-> routing_table[n]]

\* Variant of add_link without the second add_neighbor call (line 92).
add_link_one_way(node1, node2, cost) ==
    LET first == add_neighbor(NodeOf(node1), node2, cost)
        node(n) == IF n = node1 THEN first ELSE NodeOf(n)
    IN  [neighbors |-> [n \in AllNames |-> node(n).neighbors],
         nbrOrder |-> [n \in AllNames |-> node(n).nbrOrder],
         routing_table |-> [n \in AllNames |-> node(n).routing_table]]

\* Variant of add_link whose second call names node2 for node1 (line 92).
add_link_wrong_peer(node1, node2, cost) ==
    LET first == add_neighbor(NodeOf(node1), node2, cost)
        second == add_neighbor(IF node2 = node1 THEN first ELSE NodeOf(node2),
                               node2, cost)
        node(n) == IF n = node2 THEN second
                   ELSE IF n = node1 THEN first ELSE NodeOf(n)
    IN  [neighbors |-> [n \in AllNames |-> node(n).neighbors],
         nbrOrder |-> [n \in AllNames |-> node(n).nbrOrder],
         routing_table |-> [n \in AllNames |-> node(n).routing_table]]

\* Network.add_link(node1, node2, cost): both add_node calls, then
\* add_neighbor on node1, then add_neighbor on node2 (the same Node twice
\* when node1 = node2).  The result is the three per-node maps.
add_link(node1, node2, cost) ==
    LET first == add_neighbor(NodeOf(node1), node2, cost)
        second == add_neighbor(IF node2 = node1 THEN first ELSE NodeOf(node2),
                               node1, cost)
        node(n) == IF n = node2 THEN second
                   ELSE IF n = node1 THEN first ELSE NodeOf(n)
    IN  [neighbors |-> [n \in AllNames |-> node(n).neighbors],
         nbrOrder |-> [n \in AllNames |-> node(n).nbrOrder],
         routing_table |-> [n \in AllNames |-> node(n).routing_table]]

\* The nodes of the network: the keys of Network.nodes.
Nodes == Range(nodeOrder)

\* ------------------------------------------------------------------- Init

Init0 ==
    /\ nodeOrder = <<>>
    /\ neighbors = [n \in AllNames |-> NewNode.neighbors]
    /\ nbrOrder = [n \in AllNames |-> NewNode.nbrOrder]
    /\ routing_table = [n \in AllNames |-> NewNode.routing_table]
    /\ sent_tables = EmptyDict
    /\ updated = FALSE
    /\ iteration = 0
    /\ pc = "setup"
    /\ i = 0
    /\ j = 0
    /\ runs = 0
    /\ links = 0
    /\ direct_call = [self |-> None, neighbor |-> None, outcome |-> None]

\* A caller that makes its own add_link calls.
Init == Init0 /\ pending = <<>>

\* main(): the five add_link calls are still to be made.  The order of the
\* calls is drawn from the orders of main()'s five links, main()'s own
\* order among them.
Permutations5 ==
    {p \in [1..5 -> 1..5] : \A x, y \in 1..5 : x # y => p[x] # p[y]}

InitMain ==
    /\ Init0
    /\ pending \in {[k \in 1..5 |-> MainLinks[p[k]]] : p \in Permutations5}

\* ---------------------------------------------------------------- actions

\* Variant of SentTable that reads the node's table as it is now.
SentTableLive(n) == routing_table[n]

\* sent_tables[n] as a reader finds it (line 119): the contents of the
\* object send_routing_table returned for node n.
SentTable(n) ==
    IF sent_tables[n].alias THEN routing_table[n] ELSE sent_tables[n].table

\* The names a caller may pass next: those of the nodes that exist and the
\* first unused name.  Node names are interchangeable for the program (it
\* only tests them for equality and uses them as dict keys), so a caller
\* introduces them in the order of NameSeq.
Known(order) ==
    {NameSeq[x] : x \in {y \in DOMAIN NameSeq : y <= Len(order) + 1}}

\* A caller calls network.add_link(node1, node2, cost), cost drawn from
\* costs; node1 = node2 is among the calls when self_links.
AddLink(costs, self_links) ==
    /\ pc = "setup"
    /\ pending = <<>>
    /\ links < MaxLinks
    /\ \E node1 \in Known(nodeOrder) :
       \E node2 \in Known(add_node(nodeOrder, node1)) :
       \E cost \in costs :
        LET r == add_link(node1, node2, cost) IN
        /\ self_links \/ node1 # node2
        /\ nodeOrder' = add_node(add_node(nodeOrder, node1), node2)
        /\ neighbors' = r.neighbors
        /\ nbrOrder' = r.nbrOrder
        /\ routing_table' = r.routing_table
    /\ links' = links + 1
    /\ UNCHANGED <<sent_tables, updated, iteration, pc, i, j, runs, pending,
                   direct_call>>

\* main() makes its next add_link call (lines 147-151).
MainAddLink ==
    /\ pc = "setup"
    /\ pending # <<>>
    /\ LET call == Head(pending)
           r == add_link(call[1], call[2], call[3]) IN
        /\ nodeOrder' = add_node(add_node(nodeOrder, call[1]), call[2])
        /\ neighbors' = r.neighbors
        /\ nbrOrder' = r.nbrOrder
        /\ routing_table' = r.routing_table
    /\ pending' = Tail(pending)
    /\ links' = links + 1
    /\ UNCHANGED <<sent_tables, updated, iteration, pc, i, j, runs,
                   direct_call>>

\* distance_vector_routing is called (line 102), on a network under
\* construction or again on one it has already converged: control enters
\* initialize_routing_tables.
StartRun ==
    /\ pc \in {"setup", "done"}
    /\ pending = <<>>
    /\ runs < MaxRuns
    /\ runs' = runs + 1
    /\ pc' = "init"
    /\ i' = 1
    /\ UNCHANGED <<nodeOrder, neighbors, nbrOrder, routing_table, sent_tables,
                   updated, iteration, j, links, pending, direct_call>>

\* One pass of the loop of initialize_routing_tables (lines 99-100).
InitNode ==
    /\ pc = "init"
    /\ i <= Len(nodeOrder)
    /\ LET self == nodeOrder[i] IN
        routing_table' = [routing_table EXCEPT
            ![self] = initialize_routing_table(routing_table[self], self, Nodes)]
    /\ i' = i + 1
    /\ UNCHANGED <<nodeOrder, neighbors, nbrOrder, sent_tables, updated,
                   iteration, pc, j, runs, links, pending, direct_call>>

\* initialize_routing_tables returns; iteration = 0 (line 108).
InitDone ==
    /\ pc = "init"
    /\ i > Len(nodeOrder)
    /\ iteration' = 0
    /\ pc' = "export"
    /\ UNCHANGED <<nodeOrder, neighbors, nbrOrder, routing_table, sent_tables,
                   updated, i, j, runs, links, pending, direct_call>>

\* The position of the first update_routing_table call at or after node
\* index a: nodes without neighbors make none.  0 when there is none left.
FirstCall(a) ==
    LET rest == {x \in a..Len(nodeOrder) : Len(nbrOrder[nodeOrder[x]]) > 0}
    IN  IF rest = {} THEN 0 ELSE CHOOSE x \in rest : \A y \in rest : x <= y

\* Variant of Export without `updated = False` (line 111).
ExportNoReset ==
    /\ pc = "export"
    /\ sent_tables' = [n \in Nodes |-> send_routing_table(routing_table[n])]
    /\ i' = FirstCall(1)
    /\ j' = 1
    /\ pc' = IF FirstCall(1) = 0 THEN "check" ELSE "relax"
    /\ UNCHANGED <<nodeOrder, neighbors, nbrOrder, routing_table, iteration,
                   updated, runs, links, pending, direct_call>>

\* Top of the while loop (lines 110-113): updated = False and every node's
\* table is copied into sent_tables.
Export ==
    /\ pc = "export"
    /\ updated' = FALSE
    /\ sent_tables' = [n \in Nodes |-> send_routing_table(routing_table[n])]
    /\ i' = FirstCall(1)
    /\ j' = 1
    /\ pc' = IF FirstCall(1) = 0 THEN "check" ELSE "relax"
    /\ UNCHANGED <<nodeOrder, neighbors, nbrOrder, routing_table, iteration,
                   runs, links, pending, direct_call>>

\* One pass of the inner loop (lines 116-119): node i relaxes against the
\* snapshot of its j-th neighbor.
Relax ==
    /\ pc = "relax"
    /\ LET self == nodeOrder[i]
           neighbor == nbrOrder[self][j]
           r == update_routing_table(routing_table[self], self, neighbor,
                                     neighbors[self][neighbor],
                                     SentTable(neighbor))
           more == j < Len(nbrOrder[self])
           next == IF more THEN i ELSE FirstCall(i + 1)
       IN
        /\ routing_table' = [routing_table EXCEPT ![self] = r.table]
        /\ updated' = (updated \/ r.updated)
        /\ i' = next
        /\ j' = IF more THEN j + 1 ELSE 1
        /\ pc' = IF next = 0 THEN "check" ELSE "relax"
    /\ UNCHANGED <<nodeOrder, neighbors, nbrOrder, sent_tables, iteration,
                   runs, links, pending, direct_call>>

\* Variant of Check with `if updated` for `if not updated` (line 123).
CheckInverted ==
    /\ pc = "check"
    /\ \/ /\ updated
          /\ pc' = "done"
          /\ UNCHANGED iteration
       \/ /\ ~updated
          /\ iteration < MaxIter
          /\ iteration' = iteration + 1
          /\ pc' = "export"
    /\ UNCHANGED <<nodeOrder, neighbors, nbrOrder, routing_table, sent_tables,
                   updated, i, j, runs, links, pending, direct_call>>

\* Variant of Check that leaves the loop after every round.
CheckAlwaysStops ==
    /\ pc = "check"
    /\ pc' = "done"
    /\ UNCHANGED <<nodeOrder, neighbors, nbrOrder, routing_table, sent_tables,
                   updated, iteration, i, j, runs, links, pending, direct_call>>

\* End of a round (lines 121-126): the tables are printed, then the loop
\* stops if nothing was updated and goes round again otherwise.
Check ==
    /\ pc = "check"
    /\ \/ /\ ~updated
          /\ pc' = "done"
          /\ UNCHANGED iteration
       \/ /\ updated
          /\ iteration < MaxIter
          /\ iteration' = iteration + 1
          /\ pc' = "export"
    /\ UNCHANGED <<nodeOrder, neighbors, nbrOrder, routing_table, sent_tables,
                   updated, i, j, runs, links, pending, direct_call>>

\* The tables a caller hands to update_routing_table: the table of any
\* node as it stands, the empty table, and one that advertises every name
\* at cost 0 or at float('inf').
ArgTables ==
    {routing_table[n] : n \in Nodes}
        \cup {[d \in S |-> <<c, d>>] : S \in {{}, AllNames}, c \in {0, Inf}}

\* A caller calls update_routing_table(neighbor, neighbor_table) on the
\* node self by itself, before or after a run of distance_vector_routing,
\* with any name for neighbor, and stops there.
DirectUpdate ==
    /\ pc \in {"setup", "done"}
    /\ pending = <<>>
    /\ \E self \in Nodes : \E neighbor \in Known(nodeOrder) :
       \E neighbor_table \in ArgTables :
        LET r == try_update_routing_table(NodeOf(self), self, neighbor,
                                          neighbor_table) IN
        /\ routing_table' = [routing_table EXCEPT ![self] = r.table]
        /\ direct_call' = [self |-> self, neighbor |-> neighbor,
                    outcome |-> r.outcome]
    /\ pc' = "called"
    /\ UNCHANGED <<nodeOrder, neighbors, nbrOrder, sent_tables, updated,
                   iteration, i, j, runs, links, pending>>

\* The steps distance_vector_routing takes by itself once called.
RunStep == InitNode \/ InitDone \/ Export \/ Relax \/ Check

\* --------------------------------------------------------- specifications

\* Callers that keep to the contract of add_link: a positive cost, two
\* different nodes.
Next ==
    \/ AddLink(PosCosts, FALSE)
    \/ StartRun
    \/ InitNode
    \/ InitDone
    \/ Export
    \/ Relax
    \/ Check

Spec == Init /\ [][Next]_vars

\* Callers that also pass cost 0; a call of distance_vector_routing
\* runs on: the program is sequential, so each of its steps is taken.
NextNonNeg ==
    \/ AddLink(NonNegCosts, FALSE)
    \/ StartRun
    \/ InitNode
    \/ InitDone
    \/ Export
    \/ Relax
    \/ Check

SpecNonNeg == Init /\ [][NextNonNeg]_vars /\ WF_vars(RunStep)

\* Callers that pass anything: a negative, a zero or a positive cost, and
\* node1 = node2.
NextAny ==
    \/ AddLink(AnyCosts, TRUE)
    \/ StartRun
    \/ InitNode
    \/ InitDone
    \/ Export
    \/ Relax
    \/ Check

SpecAny == Init /\ [][NextAny]_vars

\* main().
NextMain ==
    \/ MainAddLink
    \/ StartRun
    \/ InitNode
    \/ InitDone
    \/ Export
    \/ Relax
    \/ Check

SpecMain == InitMain /\ [][NextMain]_vars

\* Callers that keep to the contract of add_link and may call
\* update_routing_table on a node themselves.
NextCall ==
    \/ AddLink(PosCosts, FALSE)
    \/ StartRun
    \/ InitNode
    \/ InitDone
    \/ Export
    \/ Relax
    \/ Check
    \/ DirectUpdate

SpecCall == Init /\ [][NextCall]_vars

\* ------------------------------------------------- reference shortest paths

\* The undirected weighted graph the add_link calls built: a and b are
\* linked when a lists b as a neighbor.
Linked(a, b) == b \in DOMAIN neighbors[a]

\* Every sequence of distinct node names.
SimpleSeqs ==
    UNION {{p \in [1..k -> AllNames] : \A x, y \in 1..k : x # y => p[x] # p[y]} :
              k \in 1..Cardinality(AllNames)}

\* The simple paths of the graph from a to b.
SimplePaths(a, b) ==
    {p \in SimpleSeqs :
        /\ p[1] = a
        /\ p[Len(p)] = b
        /\ \A x \in 1..(Len(p) - 1) : Linked(p[x], p[x + 1])}

RECURSIVE PathCost(_)
PathCost(p) ==
    IF Len(p) <= 1 THEN 0 ELSE neighbors[p[1]][p[2]] + PathCost(Tail(p))

SetMin(S) == CHOOSE x \in S : \A y \in S : x <= y

\* The shortest-path cost from a to b, by enumeration of the simple paths
\* (costs are non-negative wherever this is used); Inf when b is unreachable.
ShortestPathCost(a, b) ==
    LET costs == {PathCost(p) : p \in SimplePaths(a, b)}
    IN  IF costs = {} THEN Inf ELSE SetMin(costs)

\* All shortest-path costs of the graph.
ShortestPathCosts ==
    [a \in AllNames |-> [b \in AllNames |-> ShortestPathCost(a, b)]]

\* The nodes reached from those of S over at most k links.
RECURSIVE ReachWithin(_, _)
ReachWithin(S, k) ==
    IF k = 0 THEN S
    ELSE ReachWithin(S \cup UNION {DOMAIN neighbors[x] : x \in S}, k - 1)

\* The connected component of a.
Component(a) == ReachWithin({a}, Cardinality(AllNames))

\* b is in the connected component of a.
Connected(a, b) == b \in Component(a)

\* ------------------------------------------------------------------ claims

\* C1: when distance_vector_routing stops on a network built with positive
\* costs, the cost every node A records for every reachable destination B is
\* the shortest-path cost from A to B in the graph.
C1_ConvergedCostIsShortest ==
    pc = "done" =>
        LET dist == ShortestPathCosts IN
        \A a \in Nodes, b \in Nodes :
            dist[a][b] # Inf => routing_table[a][b][1] = dist[a][b]

\* C1 witness: the loop has stopped and some node reaches a direct neighbor
\* more cheaply than over the direct link.
C1_Witness ==
    /\ pc = "done"
    /\ \E a \in Nodes, b \in Nodes :
        /\ a # b
        /\ Linked(a, b)
        /\ routing_table[a][b][1] < neighbors[a][b]

\* C2: when distance_vector_routing stops, the next hop h that A records
\* for a reachable destination B other than A is a direct neighbor of A with
\* linkcost(A, h) + shortest(h, B) = shortest(A, B).
C2_NextHopOnShortestPath ==
    pc = "done" =>
        LET dist == ShortestPathCosts IN
        \A a \in Nodes, b \in Nodes :
            (a # b /\ dist[a][b] # Inf) =>
                LET h == routing_table[a][b][2] IN
                /\ Linked(a, h)
                /\ Plus(neighbors[a][h], dist[h][b]) = dist[a][b]

\* C2 witness: the loop has stopped and some node routes to a destination
\* through a neighbor that is not the destination.
C2_Witness ==
    /\ pc = "done"
    /\ \E a \in Nodes, b \in Nodes :
        /\ a # b
        /\ routing_table[a][b][2] \notin {b, None}

\* C3: with non-negative link costs every call of distance_vector_routing
\* reaches a round in which no table changes and stops there, in connected
\* and disconnected topologies alike.
C3_LoopStops ==
    (pc = "init") ~>
        (/\ pc = "done"
         /\ ~updated
         /\ \A n \in Nodes : routing_table[n] = SentTable(n))

\* C3 witness: the loop has stopped on a disconnected network that has a
\* link of cost 0.
C3_Witness ==
    /\ pc = "done"
    /\ \E a \in Nodes, b \in Nodes : ~Connected(a, b)
    /\ \E a \in Nodes, b \in Nodes : Linked(a, b) /\ neighbors[a][b] = 0

\* initialize_routing_table has run on node n.
Initialized(n) ==
    /\ n \in Nodes
    /\ \/ pc \in {"export", "relax", "check", "done"}
       \/ /\ pc = "init"
          /\ \/ runs > 1
             \/ \E x \in 1..Len(nodeOrder) : x < i /\ nodeOrder[x] = n

\* C4: once initialize_routing_table has run on node N, N's entry for N is
\* (0, N) in every state, whatever the neighbors advertise.
C4_SelfEntry ==
    \A n \in Nodes :
        Initialized(n) =>
            /\ n \in DOMAIN routing_table[n]
            /\ routing_table[n][n] = <<0, n>>

\* C4 witness: a round has been relaxed on a network with a negative link
\* cost c, where the route to self through that neighbor would cost c + c < 0.
C4_Witness ==
    /\ pc = "check"
    /\ \E n \in Nodes : \E m \in DOMAIN neighbors[n] :
        /\ neighbors[n][m] < 0
        /\ routing_table[n][n] = <<0, n>>

\* C5: no update_routing_table call raises the cost of any entry, and so
\* the cost of an entry during and after a round is at most its cost at the
\* start of the round.
C5_CostNeverIncreases ==
    [][/\ pc = "relax" =>
            \A n \in Nodes : \A d \in DOMAIN routing_table[n] :
                /\ d \in DOMAIN routing_table'[n]
                /\ ~Less(routing_table[n][d][1], routing_table'[n][d][1])
       /\ pc' \in {"relax", "check", "done"} =>
            \A n \in Nodes : \A d \in DOMAIN SentTable(n)' :
                ~Less(SentTable(n)'[d][1], routing_table'[n][d][1])]_vars

\* C5 witness: at the end of a round some entry costs strictly less than it
\* did at the start of the round.
C5_Witness ==
    /\ pc = "check"
    /\ \E n \in Nodes : \E d \in DOMAIN SentTable(n) :
        Less(routing_table[n][d][1], SentTable(n)[d][1])

\* C6: when distance_vector_routing stops, the cost A records for B equals
\* the cost B records for A, for every A and B of one connected component.
C6_CostSymmetric ==
    pc = "done" =>
        \A a \in Nodes, b \in Nodes :
            Connected(a, b) => routing_table[a][b][1] = routing_table[b][a][1]

\* C6 witness: the loop has stopped and two nodes of one component that are
\* not direct neighbors record a finite cost for each other.
C6_Witness ==
    /\ pc = "done"
    /\ \E a \in Nodes, b \in Nodes :
        /\ a # b
        /\ Connected(a, b)
        /\ ~Linked(a, b)
        /\ routing_table[a][b][1] # Inf

\* C7: calling distance_vector_routing again on a network it has converged
\* changes no table in any step, never sets updated, and stops after the
\* single round of iteration 0.
C7_FixpointIdempotent ==
    [][runs > 1 =>
        /\ routing_table' = routing_table
        /\ ~updated'
        /\ pc' # "init" => iteration' = 0]_vars

\* C7 witness: a second call has stopped on a network in which some node
\* routes through an intermediate neighbor.
C7_Witness ==
    /\ pc = "done"
    /\ runs = 2
    /\ iteration = 0
    /\ \E a \in Nodes, b \in Nodes :
        /\ a # b
        /\ routing_table[a][b][2] \notin {b, None}

\* Every initialized node records (+infinity, none) for every destination
\* outside its connected component.
UnreachableStayInf ==
    \A n \in Nodes :
        Initialized(n) =>
            \A d \in Nodes \ Component(n) :
                /\ d \in DOMAIN routing_table[n]
                /\ routing_table[n][d] = <<Inf, None>>

\* C8: the entry of a destination in another connected component is
\* (+infinity, none) from initialization on, through every round and when
\* the loop stops; and whenever a relax step sets updated, an entry for a
\* destination of the node's own component has changed.
C8_UnreachableStable ==
    [][/\ UnreachableStayInf'
       /\ (pc = "relax" /\ ~updated /\ updated') =>
            \E d \in Nodes :
                /\ Connected(nodeOrder[i], d)
                /\ routing_table'[nodeOrder[i]][d] # routing_table[nodeOrder[i]][d]]_vars

\* C8 witness: the loop has stopped and a node with a neighbor other than
\* itself records (+infinity, none) for a node of another component.
C8_Witness ==
    /\ pc = "done"
    /\ \E n \in Nodes, d \in Nodes, m \in Nodes :
        /\ ~Connected(n, d)
        /\ m # n
        /\ Linked(n, m)
        /\ routing_table[n][d] = <<Inf, None>>

\* C9: for main()'s network (links A-B:1, A-C:4, B-C:2, B-D:5, C-D:1, in
\* main()'s order and in every other order of the five calls), when the loop
\* stops A records cost 0 for A, cost 1 for B, (3, B) for C and cost 4 for D
\* with a next hop on a shortest path from A to D.
C9_MainScenario ==
    pc = "done" =>
        /\ routing_table["A"]["A"][1] = 0
        /\ routing_table["A"]["B"][1] = 1
        /\ routing_table["A"]["C"] = <<3, "B">>
        /\ routing_table["A"]["D"][1] = 4
        /\ LET h == routing_table["A"]["D"][2] IN
            /\ Linked("A", h)
            /\ Plus(neighbors["A"][h], ShortestPathCost(h, "D")) = 4

\* C9 witness: the loop has stopped on the network built in main()'s order.
C9_Witness ==
    /\ pc = "done"
    /\ nodeOrder = <<"A", "B", "C", "D">>
    /\ nbrOrder["A"] = <<"B", "C">>
    /\ nbrOrder["B"] = <<"A", "C", "D">>
    /\ nbrOrder["C"] = <<"A", "B", "D">>
    /\ nbrOrder["D"] = <<"B", "C">>
    /\ routing_table["A"]["D"] = <<4, "B">>

\* A lists B with cost c exactly when B lists A with cost c.
NeighborsSymmetric ==
    \A a \in AllNames, b \in AllNames :
        /\ (b \in DOMAIN neighbors[a]) <=> (a \in DOMAIN neighbors[b])
        /\ (b \in DOMAIN neighbors[a]) => neighbors[a][b] = neighbors[b][a]

\* C10: after every add_link call the neighbor maps are symmetric, with
\* equal costs on both ends, and no step of distance_vector_routing changes
\* a neighbor map.
C10_NeighborsSymmetric ==
    [][/\ NeighborsSymmetric'
       /\ pc # "setup" => (neighbors' = neighbors /\ nbrOrder' = nbrOrder)]_vars

\* C10 witness: the loop has stopped on a network of two nodes whose one
\* link was given by two add_link calls.
C10_Witness ==
    /\ pc = "done"
    /\ links = 2
    /\ \E a \in Nodes, b \in Nodes :
        /\ a # b
        /\ Nodes = {a, b}
        /\ DOMAIN neighbors[a] = {b}
        /\ DOMAIN neighbors[b] = {a}

\* C11: the object send_routing_table returns is independent of the node's
\* table: while the nodes relax, a change of a node's routing table leaves
\* the contents of every exported snapshot as they were, and a relax step
\* of one node changes the table of no other node.
C11_SnapshotIndependent ==
    [][pc = "relax" =>
        /\ \A n \in Nodes : SentTable(n)' = SentTable(n)
        /\ \A n \in Nodes \ {nodeOrder[i]} :
               routing_table'[n] = routing_table[n]]_vars

\* C11 witness: at the end of a round some node's table differs from the
\* snapshot exported from it, and a neighbor has relaxed against that
\* snapshot.
C11_Witness ==
    /\ pc = "check"
    /\ \E n \in Nodes :
        /\ routing_table[n] # SentTable(n)
        /\ \E m \in Nodes : m # n /\ Linked(m, n)

\* C12: add_link with a cost <= 0 fails, so no node ever records a neighbor
\* link or a routing entry of a direct neighbor with a non-positive link
\* cost.
C12_NoNonPositiveLink ==
    \A n \in AllNames : \A m \in DOMAIN neighbors[n] :
        /\ neighbors[n][m] > 0
        /\ pc = "setup" /\ runs = 0 => routing_table[n][m][1] > 0

\* C13: a direct update_routing_table(neighbor, table) call on a node whose
\* neighbors do not contain `neighbor` raises an error, returning neither
\* True nor False, and leaves every routing table as it was, whatever the
\* table passed.
C13_UnknownNeighborFails ==
    [][(/\ pc' = "called"
        /\ direct_call'.neighbor \notin DOMAIN neighbors[direct_call'.self]) =>
        /\ direct_call'.outcome = "KeyError"
        /\ routing_table' = routing_table]_vars

\* C13 witness: a call naming an existing node that is not a neighbor has
\* raised KeyError on a node whose table has entries of cost float('inf'),
\* which a table advertising cost 0 would improve over a link.
C13_Witness ==
    /\ pc = "called"
    /\ direct_call.outcome = "KeyError"
    /\ direct_call.neighbor \in Nodes \ {direct_call.self}
    /\ direct_call.neighbor \in DOMAIN routing_table[direct_call.self]
    /\ routing_table[direct_call.self][direct_call.neighbor] = <<Inf, None>>

\* A cap a caller would configure on the number of rounds of one run.
SafetyCap == MaxIter

\* C14: the loop has a safety cap on its rounds: once SafetyCap rounds have
\* run and the last of them still changed a table, the run is aborted and
\* no further round starts.
C14_CapAborts ==
    [][(pc = "check" /\ updated /\ iteration + 1 >= SafetyCap) =>
        pc' # "export"]_vars

\* The table of node n at the start of the round, as Export copied it.
RoundStart(n) == sent_tables[n].table

\* The cost node n would record for destination d after a round that
\* started from the snapshots: the least of its cost at the start of the
\* round and, over its neighbors m, the link cost to m plus the cost of d
\* in the snapshot of m.
SynchronousCost(n, d) ==
    SetMin({RoundStart(n)[d][1]} \cup
           {Plus(neighbors[n][m], RoundStart(m)[d][1]) : m \in DOMAIN neighbors[n]})

\* The entry node n would record for destination d after such a round: its
\* entry at the start of the round unless a neighbor offers less, and then
\* the least cost with the first neighbor, in the order of n's neighbors,
\* that offers it.
SynchronousEntry(n, d) ==
    LET offer(x) == Plus(neighbors[n][nbrOrder[n][x]],
                         RoundStart(nbrOrder[n][x])[d][1])
        best == SynchronousCost(n, d)
        at == {x \in 1..Len(nbrOrder[n]) : offer(x) = best}
    IN  IF best = RoundStart(n)[d][1] THEN RoundStart(n)[d]
        ELSE <<best, nbrOrder[n][SetMin(at)]>>

\* C15: a round is a synchronous step over the tables as they were when
\* it started: at its end the entry of every node N for every destination
\* D other than N has cost min(cost at round start, min over N's neighbors
\* M of linkcost(N, M) + M's cost for D at round start), a function of the
\* snapshots and of N's own neighbors alone, so the order in which the
\* nodes relax does not matter.
C15_SynchronousRound ==
    pc = "check" =>
        \A n \in Nodes : \A d \in Nodes \ {n} :
            /\ routing_table[n][d][1] = SynchronousCost(n, d)
            /\ routing_table[n][d] = SynchronousEntry(n, d)

\* C15 witness: at the end of a round a node that relaxed later than its
\* neighbor kept the cost the snapshots give although the neighbor's table,
\* changed earlier in the same round, would have given it less.
C15_Witness ==
    /\ pc = "check"
    /\ \E x, y \in 1..Len(nodeOrder) : \E d \in Nodes :
        LET m == nodeOrder[x]
            n == nodeOrder[y]
        IN  /\ x < y
            /\ d # n
            /\ Linked(n, m)
            /\ routing_table[m][d] # RoundStart(m)[d]
            /\ Less(Plus(neighbors[n][m], routing_table[m][d][1]),
                    routing_table[n][d][1])

\* C16: an update_routing_table call of node N against neighbor M replaces
\* the entry of a destination only when linkcost(N, M) + M's advertised
\* cost is strictly below the entry's cost, and then by (that sum, M); when
\* the sum equals the entry's cost the entry keeps its cost and next hop.
\* So in no step of a run does a next hop change without the cost of the
\* same entry strictly decreasing.
C16_StrictImprovement ==
    [][/\ pc = "relax" =>
            LET n == nodeOrder[i]
                m == nbrOrder[n][j]
            IN  \A d \in DOMAIN SentTable(m) \cap DOMAIN routing_table[n] :
                LET candidate == Plus(neighbors[n][m], SentTable(m)[d][1])
                    current == routing_table[n][d]
                IN  /\ routing_table'[n][d] # current =>
                        /\ Less(candidate, current[1])
                        /\ routing_table'[n][d] = <<candidate, m>>
                    /\ candidate = current[1] => routing_table'[n][d] = current
       /\ pc \in {"init", "export", "relax", "check", "done"} =>
            \A n \in Nodes : \A d \in DOMAIN routing_table[n] :
                routing_table'[n][d][2] # routing_table[n][d][2] =>
                    Less(routing_table'[n][d][1], routing_table[n][d][1])]_vars

\* C16 witness: at the end of a round a node holds an entry whose cost
\* equals what another neighbor than its next hop offered in that round.
C16_Witness ==
    /\ pc = "check"
    /\ \E n \in Nodes : \E d \in Nodes \ {n} : \E m \in DOMAIN neighbors[n] :
        /\ routing_table[n][d][1] # Inf
        /\ routing_table[n][d][2] # m
        /\ Plus(neighbors[n][m], RoundStart(m)[d][1]) = routing_table[n][d][1]

\* C17: update_routing_table returns True exactly when the call changed an
\* entry of the node's table, in a round and in a call of its own; and at
\* the end of a round the loop stops, iteration as it is, exactly when
\* every node's table equals its table at the start of the round, and
\* otherwise adds 1 to iteration and starts another round.
C17_StopsIffUnchanged ==
    [][/\ (pc = "relax" /\ ~updated) =>
            (updated' <=> routing_table' # routing_table)
       /\ (pc = "relax" /\ updated) => updated'
       /\ pc' = "called" =>
            /\ direct_call'.outcome = "True" => routing_table' # routing_table
            /\ direct_call'.outcome = "False" => routing_table' = routing_table
       /\ pc = "check" =>
            IF \A n \in Nodes : routing_table[n] = RoundStart(n)
            THEN pc' = "done" /\ iteration' = iteration
            ELSE pc' = "export" /\ iteration' = iteration + 1]_vars

\* C17 witness: a run has stopped at iteration 1 or later, so that it went
\* on after a round that changed a table and stopped after one that did
\* not.
C17_Witness ==
    /\ pc = "done"
    /\ iteration >= 1
    /\ ~updated
    /\ \A n \in Nodes : routing_table[n] = RoundStart(n)

\* The table node n has between setup and the first round: one entry for
\* every node of the network, (0, n) for n itself, (c, d) for a direct
\* neighbor d with c the cost of the link, (float('inf'), None) otherwise.
SetupTable(n) ==
    [d \in Nodes |->
        IF d = n THEN <<0, n>>
        ELSE IF d \in DOMAIN neighbors[n] THEN <<neighbors[n][d], d>>
        ELSE <<Inf, None>>]

\* C18: when initialize_routing_tables returns in the first run, before the
\* first round, every node's table is its SetupTable; and no step of
\* initialize_routing_tables, in any run, changes an existing entry of a
\* node for a destination other than the node itself.
C18_SetupTables ==
    [][/\ (pc = "init" /\ pc' = "export" /\ runs = 1) =>
            \A n \in Nodes : routing_table'[n] = SetupTable(n)
       /\ pc = "init" =>
            \A n \in Nodes : \A d \in DOMAIN routing_table[n] \ {n} :
                routing_table'[n][d] = routing_table[n][d]]_vars

\* C18 witness: the first run stands before its first round on a network
\* in which some node has a direct neighbor, a node that is not its
\* neighbor, and a link whose cost a later add_link call replaced.
C18_Witness ==
    /\ pc = "export"
    /\ runs = 1
    /\ iteration = 0
    /\ \E n \in Nodes : \E d \in Nodes \ {n} : \E e \in Nodes \ {n} :
        /\ Linked(n, d)
        /\ routing_table[n][d] = <<neighbors[n][d], d>>
        /\ ~Linked(n, e)
        /\ routing_table[n][e] = <<Inf, None>>
    /\ links > Cardinality({e \in SUBSET Nodes :
                                \E a, b \in Nodes : e = {a, b} /\ Linked(a, b)})

\* An entry is (float('inf'), None) or has a finite cost and a next hop
\* that is a direct neighbor of node n.
WellFormedEntry(n, entry) ==
    \/ entry = <<Inf, None>>
    \/ /\ entry[1] # Inf
       /\ entry[2] # None
       /\ entry[2] \in DOMAIN neighbors[n]

\* C19: once initialize_routing_table has run on node N, N's entry for
\* every destination other than N is (float('inf'), None) or has a finite
\* cost and a next hop among N's direct neighbors, in every state; and the
\* entries a relax step writes are of the second kind.
C19_EntriesWellFormed ==
    [][/\ \A n \in Nodes :
            Initialized(n)' =>
                \A d \in Nodes \ {n} :
                    /\ d \in DOMAIN routing_table'[n]
                    /\ WellFormedEntry(n, routing_table'[n][d])
       /\ pc = "relax" =>
            LET n == nodeOrder[i] IN
            \A d \in DOMAIN routing_table'[n] :
                \/ /\ d \in DOMAIN routing_table[n]
                   /\ routing_table'[n][d] = routing_table[n][d]
                \/ /\ routing_table'[n][d][1] # Inf
                   /\ routing_table'[n][d][2] \in DOMAIN neighbors[n]]_vars

\* C19 witness: at the end of a round a node holds, for destinations other
\* than itself, an entry (float('inf'), None) and an entry of finite cost
\* written in that round whose next hop is not the destination.
C19_Witness ==
    /\ pc = "check"
    /\ \E n \in Nodes : \E d \in Nodes \ {n} : \E e \in Nodes \ {n} :
        /\ routing_table[n][d] = <<Inf, None>>
        /\ routing_table[n][e] # RoundStart(n)[e]
        /\ routing_table[n][e][2] # e

\* The paths of the graph from a to b that use at most k links.
PathsWithin(a, b, k) == {p \in SimplePaths(a, b) : Len(p) - 1 <= k}

\* The least cost of a path from a to b of at most k links; Inf when there
\* is none.
CostWithin(a, b, k) ==
    LET costs == {PathCost(p) : p \in PathsWithin(a, b, k)}
    IN  IF costs = {} THEN Inf ELSE SetMin(costs)

\* The rounds the current run has completed.
RoundsCompleted == IF pc = "export" THEN iteration ELSE iteration + 1

\* C20: with positive link costs, when k rounds of a first run are
\* complete (k = 0 right after initialization) the cost every node N
\* records for every destination D other than N is the least cost of a
\* path from N to D of at most k + 1 links, float('inf') if there is none;
\* and a run on n nodes has stopped after at most max(1, n - 1) rounds,
\* the last of which changed no table.
C20_HopBound ==
    /\ (runs = 1 /\ pc \in {"export", "check", "done"}) =>
        \A n \in Nodes : \A d \in Nodes \ {n} :
            routing_table[n][d][1] = CostWithin(n, d, RoundsCompleted + 1)
    /\ (runs = 1 /\ pc = "done") =>
        /\ RoundsCompleted <= IF Cardinality(Nodes) - 1 > 1
                              THEN Cardinality(Nodes) - 1 ELSE 1
        /\ \A n \in Nodes : routing_table[n] = RoundStart(n)

\* C20 witness: a first run on four nodes has stopped after three rounds,
\* and some node records a cost that only a path of three links gives.
C20_Witness ==
    /\ pc = "done"
    /\ runs = 1
    /\ Cardinality(Nodes) = Cardinality(AllNames)
    /\ RoundsCompleted = Cardinality(Nodes) - 1
    /\ \E n \in Nodes : \E d \in Nodes \ {n} :
        /\ routing_table[n][d][1] # Inf
        /\ CostWithin(n, d, Cardinality(Nodes) - 2) = Inf

====
